---- MODULE Spec2Model ----
(***************************************************************************)
(* Model of update_dependencies.py (GOSS-Repository): the version          *)
(* comparator, the Maven Central query, the JAR download with its          *)
(* multi-repository fallback, the default run over index.xml and the       *)
(* additional-downloads loop (also used by --sync).                        *)
(*                                                                         *)
(* Strings are sequences of one-character strings, so that splitting,      *)
(* case folding and lexicographic comparison are computed, not assumed.    *)
(* Python's None is the value NoneV; a missing dictionary key is Absent.   *)
(***************************************************************************)
EXTENDS Integers, Sequences, FiniteSets, TLC

\* ------------------------------------------------------------------ bounds

\* Longest index.xml (number of <resource> entries) the default run reads.
MaxIndex == 2
\* Longest additionalDownloads list of the default run.
MaxAdd == 1
\* Longest additionalDownloads list of the --sync run.
MaxSync == 2
\* Number of times the default run is executed in a row, and the longest
\* index the first of these runs reads.
MaxPasses == 2
MaxIndexTwice == 1
MaxListing == 3

\* ----------------------------------------------------------------- strings

\* The characters of the model, in code point order.
Chars ==
  << "-", ".", "/",
     "0", "1", "2", "3", "4", "5", "6", "7", "8", "9",
     "<", ">",
     "A", "B", "C", "D", "E", "F", "G", "H", "I", "J", "K", "L", "M",
     "N", "O", "P", "Q", "R", "S", "T", "U", "V", "W", "X", "Y", "Z",
     "_",
     "a", "b", "c", "d", "e", "f", "g", "h", "i", "j", "k", "l", "m",
     "n", "o", "p", "q", "r", "s", "t", "u", "v", "w", "x", "y", "z" >>

\* Position of a character in code point order.
Ord(c) == CHOOSE i \in 1..Len(Chars) : Chars[i] = c

Digits == {"0", "1", "2", "3", "4", "5", "6", "7", "8", "9"}

DigitVal(c) == Ord(c) - Ord("0")

IsUpper(c) == Ord(c) >= Ord("A") /\ Ord(c) <= Ord("Z")

\* bytes.lower() / re.IGNORECASE on one character.
LowerChar(c) == IF IsUpper(c) THEN Chars[Ord(c) - Ord("A") + Ord("a")] ELSE c

Lower(s) == [i \in 1..Len(s) |-> LowerChar(s[i])]

\* Python's str < str: lexicographic by code point, a proper prefix is smaller.
RECURSIVE StrLess(_, _)
StrLess(s, t) ==
  IF t = <<>> THEN FALSE
  ELSE IF s = <<>> THEN TRUE
  ELSE IF Ord(s[1]) < Ord(t[1]) THEN TRUE
  ELSE IF Ord(s[1]) > Ord(t[1]) THEN FALSE
  ELSE StrLess(Tail(s), Tail(t))

\* sub in s  (substring search).
Contains(s, sub) ==
  \E i \in 0..(Len(s) - Len(sub)) : SubSeq(s, i + 1, i + Len(sub)) = sub

\* Python's None and a missing dictionary key: neither is a character string.
NoneV == << "None" >>
Absent == << "<absent>" >>

\* f"{x}" : None is formatted as the text None.
Fmt(x) == IF x = NoneV THEN << "N", "o", "n", "e" >> ELSE x

\* --------------------------------------------------------- compare_versions

Delims == {".", "_", "-"}
QualifierDelims == {"-", "_"}
Qualifiers ==
  { << "r", "e", "l", "e", "a", "s", "e" >>, << "f", "i", "n", "a", "l" >>, << "g", "a" >> }

\* re.sub(r'[-_](RELEASE|FINAL|GA)$', '', v, flags=re.IGNORECASE)
StripQualifier(v) ==
  LET hits == { q \in Qualifiers :
                  /\ Len(v) >= Len(q) + 1
                  /\ v[Len(v) - Len(q)] \in QualifierDelims
                  /\ Lower(SubSeq(v, Len(v) - Len(q) + 1, Len(v))) = q }
  IN IF hits = {} THEN v
     ELSE LET q == CHOOSE h \in hits : TRUE
          IN SubSeq(v, 1, Len(v) - Len(q) - 1)

\* re.split(r'[._-]', v): the pieces between delimiters, empty ones included.
RECURSIVE SplitFrom(_, _, _)
SplitFrom(v, i, cur) ==
  IF i > Len(v) THEN << cur >>
  ELSE IF v[i] \in Delims THEN << cur >> \o SplitFrom(v, i + 1, <<>>)
  ELSE SplitFrom(v, i + 1, Append(cur, v[i]))

Split(v) == SplitFrom(v, 1, <<>>)

\* int(p) succeeds exactly on a non-empty run of digits (the pieces hold no
\* sign, blank or underscore: the last is a delimiter, the others are not in Chars).
IsInt(p) == p # <<>> /\ \A i \in 1..Len(p) : p[i] \in Digits

RECURSIVE IntOf(_)
IntOf(p) == IF p = <<>> THEN 0 ELSE 10 * IntOf(SubSeq(p, 1, Len(p) - 1)) + DigitVal(p[Len(p)])

\* str(n) for n >= 0.
RECURSIVE StrOfInt(_)
StrOfInt(n) ==
  IF n < 10 THEN << Chars[Ord("0") + n] >>
  ELSE Append(StrOfInt(n \div 10), Chars[Ord("0") + (n % 10)])

Token(p) == IF IsInt(p) THEN [int |-> TRUE, n |-> IntOf(p), s |-> <<>>]
            ELSE [int |-> FALSE, n |-> 0, s |-> p]

\* str(a) of a token.
TokStr(a) == IF a.int THEN StrOfInt(a.n) ELSE a.s

normalize(v) ==
  LET parts == Split(StripQualifier(v))
  IN [i \in 1..Len(parts) |-> Token(parts[i])]

\* Mutant of CmpToken: an integer piece always sorts before a non-integer one.
CmpToken_mixed(a, b) ==
  IF a.int /\ b.int
  THEN (IF a.n < b.n THEN -1 ELSE IF a.n > b.n THEN 1 ELSE 0)
  ELSE IF a.int # b.int THEN -1
  ELSE (IF StrLess(TokStr(a), TokStr(b)) THEN -1
        ELSE IF StrLess(TokStr(b), TokStr(a)) THEN 1 ELSE 0)

\* Mutant of CmpToken: every pair is compared by its string form.
CmpToken_text(a, b) ==
  IF StrLess(TokStr(a), TokStr(b)) THEN -1
  ELSE IF StrLess(TokStr(b), TokStr(a)) THEN 1 ELSE 0

\* The comparison of one zipped pair: -1, 0 or 1.
CmpToken(a, b) ==
  IF a.int /\ b.int
  THEN (IF a.n < b.n THEN -1 ELSE IF a.n > b.n THEN 1 ELSE 0)
  ELSE (IF StrLess(TokStr(a), TokStr(b)) THEN -1
        ELSE IF StrLess(TokStr(b), TokStr(a)) THEN 1 ELSE 0)

\* Mutant of CmpFrom: only the zipped pairs decide, the lengths do not.
RECURSIVE CmpFrom_zip(_, _, _)
CmpFrom_zip(n1, n2, i) ==
  IF i > Len(n1) \/ i > Len(n2) THEN 0
  ELSE LET c == CmpToken(n1[i], n2[i])
       IN IF c # 0 THEN c ELSE CmpFrom_zip(n1, n2, i + 1)

RECURSIVE CmpFrom(_, _, _)
CmpFrom(n1, n2, i) ==
  IF i > Len(n1) \/ i > Len(n2)
  THEN (IF Len(n1) < Len(n2) THEN -1 ELSE IF Len(n1) > Len(n2) THEN 1 ELSE 0)
  ELSE LET c == CmpToken(n1[i], n2[i])
       IN IF c # 0 THEN c ELSE CmpFrom(n1, n2, i + 1)

compare_versions(v1, v2) == CmpFrom(normalize(v1), normalize(v2), 1)

\* ------------------------------------------------------------ small helpers

\* Python truthiness of an optional string: None, a missing key and '' are false.
Truthy(x) == x # NoneV /\ x # Absent /\ x # <<>>

Range(s) == { s[k] : k \in 1..Len(s) }

\* All sequences over S of length 0..n.
SeqsUpTo(S, n) == UNION { [1..k -> S] : k \in 0..n }

\* sorted(): ascending under Python's string order.
RECURSIVE SortStrings(_)
SortStrings(S) ==
  IF S = {} THEN <<>>
  ELSE LET m == CHOOSE x \in S : \A y \in S \ {x} : StrLess(x, y)
       IN << m >> \o SortStrings(S \ {m})

\* --------------------------------------------------------------- the index

\* parse_index_xml: a resource is kept only with both identity and version.
parse_index_xml(doc) ==
  SelectSeq(doc, LAMBDA b : Truthy(b.identity) /\ Truthy(b.version))

\* versions.sort(key=lambda x: x['version'], reverse=True); versions[0]:
\* the entry with the greatest raw version STRING, the first such in index
\* order (the sort is stable).
KeptIndex(bundles, identity) ==
  CHOOSE k \in 1..Len(bundles) :
    /\ bundles[k].identity = identity
    /\ \A m \in 1..Len(bundles) :
         bundles[m].identity = identity =>
           /\ ~StrLess(bundles[k].version, bundles[m].version)
           /\ (bundles[m].version = bundles[k].version => k <= m)

LatestBundles(bundles) ==
  [id \in { bundles[k].identity : k \in 1..Len(bundles) } |->
     bundles[KeptIndex(bundles, id)]]

\* Mutant of get_dest_dir_from_url: always REPO_DIR itself.
get_dest_dir_from_url_repo_dir(url) == <<>>

\* get_dest_dir_from_url: REPO_DIR / url.split('/')[0]
RECURSIVE FirstSegment(_)
FirstSegment(url) ==
  IF url = <<>> \/ url[1] = "/" THEN <<>>
  ELSE << url[1] >> \o FirstSegment(Tail(url))

get_dest_dir_from_url(url) == FirstSegment(url)

\* ------------------------------------------------- get_latest_version_from_maven

\* What the search endpoint can answer.  kind:
\*   URLError      transport or HTTP error raised by urlopen         (caught)
\*   ReadTimeout   socket timeout while reading the body             (not caught)
\*   BadJSON       body is not JSON: json.JSONDecodeError            (caught)
\*   NotObject     JSON that is not an object: TypeError             (not caught)
\*   NoResponseKey object without 'response': KeyError               (caught)
\*   Zero          numFound = 0
\*   EmptyDocs     numFound > 0 with docs = []: IndexError           (not caught)
\*   Doc           numFound > 0 and a first document
MavenReply(kind, lv, v, ga) == [kind |-> kind, latestVersion |-> lv, v |-> v, ga |-> ga]

\* doc.get('latestVersion', doc.get('v'))
DocVersion(reply) ==
  IF reply.latestVersion # Absent THEN reply.latestVersion
  ELSE IF reply.v # Absent THEN reply.v
  ELSE NoneV

\* st: "raise" (an exception leaves the function), "none" or "ok".
get_latest_version_from_maven(reply) ==
  IF reply.kind \in {"ReadTimeout", "NotObject", "EmptyDocs"}
  THEN [st |-> "raise", version |-> NoneV]
  ELSE IF reply.kind \in {"URLError", "BadJSON", "NoResponseKey", "Zero"}
  THEN [st |-> "none", version |-> NoneV]
  ELSE IF ~reply.ga                       \* doc['g'] / doc['a']: KeyError, caught
  THEN [st |-> "none", version |-> NoneV]
  ELSE [st |-> "ok", version |-> DocVersion(reply)]

\* search_mvnrepository(group_id, artifact_id) without a version: the release
\* anchor of the page, or None; every exception is caught.
search_mvnrepository(page) ==
  IF page.kind = "Page" /\ page.anchor # Absent
  THEN [st |-> "ok", version |-> page.anchor]
  ELSE [st |-> "none", version |-> NoneV]

\* ------------------------------------------------------------- download_jar

HtmlThreshold == 1000
HtmlMarker == << "<", "h", "t", "m", "l" >>
JarSuffix == << ".", "j", "a", "r" >>

\* A response body: the bytes of head followed by fill bytes of binary data.
BodyLen(body) == Len(body.head) + body.fill

\* Mutant of IsHtmlErrorPage: the marker is looked for in the body as sent.
IsHtmlErrorPage_case(body) ==
  BodyLen(body) < HtmlThreshold /\ Contains(body.head, HtmlMarker)

\* len(data) < 1000 and b'<html' in data.lower()
IsHtmlErrorPage(body) ==
  BodyLen(body) < HtmlThreshold /\ Contains(Lower(body.head), HtmlMarker)

JarName(artifact_id, version) == artifact_id \o << "-" >> \o Fmt(version) \o JarSuffix

FileAt(d, dir, name) == { f \in d : f.dir = dir /\ f.name = name }

\* Mutant of Exists: the folder is checked, not the file.
Exists_folder(d, dir, name) == \E f \in d : f.dir = dir

\* dest_path.exists()
Exists(d, dir, name) == FileAt(d, dir, name) # {}

\* open(dest_path, 'wb'); f.write(data)
WriteFile(d, dir, name, data) ==
  (d \ FileAt(d, dir, name)) \cup { [dir |-> dir, name |-> name, data |-> data] }

EmptyBody == [head |-> <<>>, fill |-> 0]

\* The first n bytes of a body.
Prefix(body, n) ==
  LET h == IF n < Len(body.head) THEN n ELSE Len(body.head)
      f == IF n - h < body.fill THEN n - h ELSE body.fill
  IN [head |-> SubSeq(body.head, 1, h), fill |-> f]

\* What one GET can meet.  fs: "ok", "mkdir_fail" (dest_dir.mkdir raises),
\* "open_fail" (open raises), "write_fail" (the file takes cut bytes: writing
\* more raises, after the file was truncated and cut bytes went into it).
\* net: "response",
\* "URLError", "ReadTimeout" (the body of an accepted response times out).
\* status: the final HTTP status, redirects followed.
Response(fs, net, status, body) ==
  [fs |-> fs, net |-> net, status |-> status, body |-> body, cut |-> 0]

\* urlopen returns the response of a 2xx status and raises HTTPError for any
\* other (HTTPErrorProcessor.http_response).
HttpOk(status) == status >= 200 /\ status < 300

\* response.read(): the body sent, except that a 204 response has no body
\* for the client, which reads b'' whatever the server sent.
ReadBody(resp) == IF resp.status = 204 THEN EmptyBody ELSE resp.body

\* f.write(data) raises: the file does not take all of data.
WriteFails(resp, data) == resp.fs = "write_fail" /\ BodyLen(data) > resp.cut

\* download_jar: ret is "True", "False" or "raise"; disk is the file system
\* after; wrote counts the files the call opened for writing.
download_jar(group_id, artifact_id, version, dest_dir, repo_url, resp, d) ==
  LET jar_name == JarName(artifact_id, version)
      data == ReadBody(resp)
  IN IF resp.fs = "mkdir_fail" THEN [ret |-> "raise", disk |-> d, wrote |-> 0]
     ELSE IF resp.net = "URLError" THEN [ret |-> "False", disk |-> d, wrote |-> 0]
     ELSE IF ~HttpOk(resp.status) THEN [ret |-> "False", disk |-> d, wrote |-> 0]
     ELSE IF resp.net = "ReadTimeout" THEN [ret |-> "raise", disk |-> d, wrote |-> 0]
     ELSE IF IsHtmlErrorPage(data) THEN [ret |-> "False", disk |-> d, wrote |-> 0]
     ELSE IF resp.fs = "open_fail" THEN [ret |-> "raise", disk |-> d, wrote |-> 0]
     ELSE IF WriteFails(resp, data)
          THEN [ret |-> "raise",
                disk |-> WriteFile(d, dest_dir, jar_name, Prefix(data, resp.cut)),
                wrote |-> 1]
     ELSE [ret |-> "True", disk |-> WriteFile(d, dest_dir, jar_name, data), wrote |-> 1]

\* download_from_bnd_hub: no error-page check, and the destination is opened
\* for writing before the body is read (f.write(response.read()) inside the
\* with open(...) block), so a timeout while reading leaves an empty file
\* behind, and a failing write what it wrote.
download_from_bnd_hub(bundle_name, version, dest_dir, resp, d) ==
  LET jar_name == JarName(bundle_name, version)
      data == ReadBody(resp)
  IN IF resp.fs = "mkdir_fail" THEN [ret |-> "raise", disk |-> d, wrote |-> 0]
     ELSE IF resp.net = "URLError" THEN [ret |-> "False", disk |-> d, wrote |-> 0]
     ELSE IF ~HttpOk(resp.status) THEN [ret |-> "False", disk |-> d, wrote |-> 0]
     ELSE IF resp.fs = "open_fail" THEN [ret |-> "raise", disk |-> d, wrote |-> 0]
     ELSE IF resp.net = "ReadTimeout"
          THEN [ret |-> "raise", disk |-> WriteFile(d, dest_dir, jar_name, EmptyBody), wrote |-> 1]
     ELSE IF WriteFails(resp, data)
          THEN [ret |-> "raise",
                disk |-> WriteFile(d, dest_dir, jar_name, Prefix(data, resp.cut)),
                wrote |-> 1]
     ELSE [ret |-> "True", disk |-> WriteFile(d, dest_dir, jar_name, data), wrote |-> 1]

\* MAVEN_REPOSITORIES, in insertion order (the order .items() yields).
MAVEN_REPOSITORIES ==
  << "Maven Central", "Spring Plugins", "Spring Libs", "JBoss", "Sonatype" >>

MAVEN_DOWNLOAD_URL == "Maven Central"

\* search_mvnrepository, lines 205-222: the repositories a page names, in the
\* order the code asks for their markers; Maven Central when it names none.
MarkerCentralHost == << "r", "e", "p", "o", "1", ".", "m", "a", "v", "e", "n", ".", "o", "r", "g" >>
MarkerCentral == << "M", "a", "v", "e", "n", " ", "C", "e", "n", "t", "r", "a", "l" >>
MarkerSpringHost ==
  << "r", "e", "p", "o", "s", "i", "t", "o", "r", "y", ".", "s", "p", "r", "i", "n", "g", ".", "i", "o" >>
MarkerSpring == << "S", "p", "r", "i", "n", "g" >>
MarkerJBossHost ==
  << "r", "e", "p", "o", "s", "i", "t", "o", "r", "y", ".", "j", "b", "o", "s", "s", ".", "o", "r", "g" >>

ListedRepositories(html) ==
  LET repo_urls ==
        (IF Contains(html, MarkerCentralHost) \/ Contains(html, MarkerCentral)
         THEN << "Maven Central" >> ELSE <<>>)
        \o (IF Contains(html, MarkerSpringHost) \/ Contains(html, MarkerSpring)
            THEN << "Spring" >> ELSE <<>>)
        \o (IF Contains(html, MarkerJBossHost) THEN << "JBoss" >> ELSE <<>>)
  IN IF repo_urls # <<>> THEN repo_urls ELSE << "Maven Central" >>

\* search_mvnrepository(group_id, artifact_id, version): with a version the
\* page is not searched for the release anchor; every exception gives None.
search_mvnrepository_version(page, version) ==
  IF page.kind # "Page" THEN [st |-> "none", version |-> NoneV, repositories |-> <<>>]
  ELSE IF ~Truthy(version) /\ page.anchor = Absent
  THEN [st |-> "none", version |-> NoneV, repositories |-> <<>>]
  ELSE [st |-> "ok", version |-> IF Truthy(version) THEN version ELSE page.anchor,
        repositories |-> ListedRepositories(page.html)]

\* download_from_mvnrepository, lines 238-243: download_jar on the listed
\* repositories in turn, resps[k] being what the k-th one answers; the first
\* success ends the loop, an exception leaves the function.
RECURSIVE TryListed(_, _, _, _, _, _, _, _)
TryListed(group_id, artifact_id, version, dest_dir, repositories, resps, k, d) ==
  IF k > Len(repositories)
  THEN [ret |-> "False", repo_name |-> "None", disk |-> d, attempts |-> k - 1]
  ELSE LET got == download_jar(group_id, artifact_id, version, dest_dir,
                               repositories[k], resps[k], d)
       IN IF got.ret = "raise"
          THEN [ret |-> "raise", repo_name |-> "None", disk |-> got.disk, attempts |-> k]
          ELSE IF got.ret = "True"
          THEN [ret |-> "True", repo_name |-> repositories[k], disk |-> got.disk, attempts |-> k]
          ELSE TryListed(group_id, artifact_id, version, dest_dir, repositories, resps,
                         k + 1, got.disk)

download_from_mvnrepository(group_id, artifact_id, version, dest_dir, page, resps, d) ==
  LET info == search_mvnrepository_version(page, version)
  IN IF info.st = "none"
     THEN [ret |-> "False", repo_name |-> "None", disk |-> d, attempts |-> 0]
     ELSE TryListed(group_id, artifact_id, version, dest_dir, info.repositories, resps, 1, d)

\* ------------------------------------------------------------------- state

VARIABLES
  mode,                 \* "default" (main's full update), "sync" (--sync), "fetch",
                        \* "mvn", "compare", "hub" (one function called on its own)
  config_exists,        \* CONFIG_FILE.exists() when the script was loaded
  BUNDLE_TO_MAVEN,      \* identity -> <<groupId, artifactId>> or NoneV
  ADDITIONAL_DOWNLOADS, \* the additionalDownloads list of dependencies.json
  index_exists,         \* INDEX_FILE.exists()
  index,                \* the resources of index.xml
  disk,                 \* the JAR files under REPO_DIR: [dir, name, data]
  pc,                   \* where the run is
  pass,                 \* number of the current run
  latest_bundles,       \* main: identity -> kept index entry
  order,                \* main: sorted(latest_bundles)
  i,                    \* main: position in order
  j,                    \* download_additional_bundles: position in the list
  latest_version,       \* the local of that name, between two network calls
  repo_i,               \* download_jar_from_multiple_repos: position in MAVEN_REPOSITORIES
  results,              \* main's six result lists
  additional_results,   \* download_additional_bundles' three result lists
  prev_results,         \* results of the previous run
  trace,                \* the network calls and sleeps of this run, in order
  fetch_in,             \* mode "fetch": the arguments and the response handed to
                        \* download_jar; before: the files on disk when the run began
  fetch_ret,            \* mode "fetch": what download_jar returned
  call_args,            \* modes "mvn", "compare", "hub": the arguments of the function called
  call_ret              \* modes "mvn", "compare", "hub": what it returned

vars ==
  << mode, config_exists, BUNDLE_TO_MAVEN, ADDITIONAL_DOWNLOADS, index_exists, index,
     disk, pc, pass, latest_bundles, order, i, j, latest_version, repo_i, results,
     additional_results, prev_results, trace, fetch_in, fetch_ret, call_args, call_ret >>

config == << mode, config_exists, BUNDLE_TO_MAVEN, ADDITIONAL_DOWNLOADS >>

EmptyResults ==
  [updated |-> <<>>, up_to_date |-> <<>>, unavailable |-> <<>>,
   local_only |-> <<>>, not_mapped |-> <<>>, errors |-> <<>>]

EmptyAdditional == [downloaded |-> <<>>, errors |-> <<>>, already_exists |-> <<>>]

NetOps == {"query", "search", "download", "multi", "hub"}

\* One entry of trace: a network call (op in NetOps) or a time.sleep, made
\* while loop ("main" or "add") worked on key (the identity, or the position
\* in the list).  arg: the repository asked; ver: the version asked for or
\* answered; res: what the call returned; wrote: the files it wrote.
Ev(op, loop, key, arg, ver, res, wrote) ==
  [op |-> op, loop |-> loop, key |-> key, arg |-> arg, ver |-> ver, res |-> res,
   wrote |-> wrote]

Sleep(loop, key) == Ev("sleep", loop, key, "", NoneV, "", 0)

\* ------------------------------------------------------------ input domains

V9 == << "9" >>
V10 == << "1", "0" >>

IdX == << "X" >>
IdY == << "Y" >>
Identities == {IdX, IdY}

GroupG == << "g" >>
ArtifactC == << "c" >>
IdC == << "C" >>
CoordOf(id) == IF id = IdX THEN << GroupG, << "a" >> >> ELSE << GroupG, << "b" >> >>

UrlLib == << "l", "/", "f" >>

\* load_config: a bundle marked local, or lacking groupId or artifactId, maps
\* to None; the others to their coordinates.
load_config(bundles) ==
  [id \in DOMAIN bundles |->
     IF bundles[id].local THEN NoneV
     ELSE IF bundles[id].groupId # Absent /\ bundles[id].artifactId # Absent
          THEN << bundles[id].groupId, bundles[id].artifactId >>
     ELSE NoneV]

\* The "bundles" objects of dependencies.json: each identity is absent, local,
\* without artifactId, or mapped to its coordinates.
RawBundle(id) ==
  { [local |-> TRUE, groupId |-> CoordOf(id)[1], artifactId |-> CoordOf(id)[2]],
    [local |-> FALSE, groupId |-> CoordOf(id)[1], artifactId |-> Absent],
    [local |-> FALSE, groupId |-> CoordOf(id)[1], artifactId |-> CoordOf(id)[2]] }

\* load_config without CONFIG_FILE: return {}, [] (lines 55-58).
MissingConfig == [bundle_to_maven |-> << >>, additional_downloads |-> <<>>]

RawConfigs ==
  UNION { { f \in [D -> UNION { RawBundle(id) : id \in Identities }] :
              \A id \in D : f[id] \in RawBundle(id) } : D \in SUBSET Identities }

IndexEntry(id, v, url) == [identity |-> id, version |-> v, url |-> url, type |-> "osgi.bundle"]

IndexEntries ==
  { IndexEntry(id, v, u) : id \in Identities, v \in {V9, V10}, u \in {UrlLib, NoneV} }
    \cup { IndexEntry(IdX, NoneV, UrlLib) }

Item(c, g, a, f, v, s, r) ==
  [comment |-> c, groupId |-> g, artifactId |-> a, folder |-> f, version |-> v,
   source |-> s, repoUrl |-> r]

AbsentS == "<absent>"
FolderMisc == << "m", "i", "s", "c" >>
HubDefaultVersion == << "4", ".", "3", ".", "0" >>

\* Replies of the search endpoint.
MavenReplies ==
  { MavenReply(k, Absent, Absent, TRUE) :
      k \in {"URLError", "ReadTimeout", "BadJSON", "NotObject", "NoResponseKey", "Zero", "EmptyDocs"} }
    \cup { MavenReply("Doc", lv, v, ga) :
             lv \in {Absent, NoneV, V10}, v \in {Absent, V9}, ga \in BOOLEAN }

Pages ==
  { [kind |-> "Error", anchor |-> Absent], [kind |-> "Page", anchor |-> Absent],
    [kind |-> "Page", anchor |-> V10] }

JarBody == [head |-> << "P", "K" >>, fill |-> 2000]
HtmlBody == [head |-> << "<", "h", "t", "m", "l", ">" >>, fill |-> 0]

\* Responses met by the runs: each outcome of download_jar, once; the JAR
\* also with a status that is neither 2xx nor an error status, and with a
\* write that fails after 500 bytes.
RunResponses ==
  { Response("ok", "response", 200, JarBody),
    Response("ok", "response", 200, HtmlBody),
    Response("ok", "response", 304, JarBody),
    Response("ok", "response", 404, HtmlBody),
    Response("ok", "URLError", 0, EmptyBody),
    Response("ok", "ReadTimeout", 200, EmptyBody),
    Response("mkdir_fail", "response", 200, JarBody),
    Response("open_fail", "response", 200, JarBody),
    Response("write_fail", "response", 200, JarBody),
    [Response("write_fail", "response", 200, JarBody) EXCEPT !.cut = 500] }

\* ------------------------------------------------------------------ main

\* main, lines 780-812: parse the index if it exists, keep one entry per
\* identity, start the loop.
Start ==
  /\ pc = "start" /\ mode = "default"
  /\ LET bundles == IF index_exists THEN parse_index_xml(index) ELSE <<>>
     IN /\ latest_bundles' = LatestBundles(bundles)
        /\ order' = SortStrings(DOMAIN LatestBundles(bundles))
  /\ results' = EmptyResults
  /\ i' = 1
  /\ pc' = "main_loop"
  /\ UNCHANGED << config, index_exists, index, disk, pass, j, latest_version, repo_i,
                  additional_results, prev_results, trace, fetch_in, fetch_ret, call_args, call_ret >>

\* Mutant of Lookup: an identity without mapping is looked up under its own name.
Lookup_fallback(identity) ==
  IF identity \in DOMAIN BUNDLE_TO_MAVEN
  THEN [mapped |-> TRUE, coords |-> BUNDLE_TO_MAVEN[identity]]
  ELSE [mapped |-> TRUE, coords |-> << identity, identity >>]

\* identity in BUNDLE_TO_MAVEN, and BUNDLE_TO_MAVEN[identity] (lines 822, 831).
Lookup(identity) ==
  IF identity \in DOMAIN BUNDLE_TO_MAVEN
  THEN [mapped |-> TRUE, coords |-> BUNDLE_TO_MAVEN[identity]]
  ELSE [mapped |-> FALSE, coords |-> NoneV]

AppendTo(r, list, rec) == [r EXCEPT ![list] = Append(@, rec)]

\* main, lines 814-842: the two outcomes decided without the network.
MainLookup ==
  /\ pc = "main_loop" /\ i <= Len(order)
  /\ LET identity == order[i]
         bundle == latest_bundles[identity]
         rec == [identity |-> identity, local_version |-> bundle.version, url |-> bundle.url]
     IN IF ~Lookup(identity).mapped
        THEN /\ results' = AppendTo(results, "not_mapped", rec)
             /\ i' = i + 1 /\ pc' = pc
        ELSE IF Lookup(identity).coords = NoneV
        THEN /\ results' = AppendTo(results, "local_only", rec)
             /\ i' = i + 1 /\ pc' = pc
        ELSE /\ pc' = "main_query"
             /\ UNCHANGED << results, i >>
  /\ UNCHANGED << config, index_exists, index, disk, pass, latest_bundles, order, j, latest_version,
                  repo_i, additional_results, prev_results, trace, fetch_in, fetch_ret, call_args, call_ret >>

\* main, lines 844-872: the version query, then Unavailable, UpToDate or on
\* to the download.  An exception leaving the query, compare_versions(local,
\* None) and get_dest_dir_from_url(None) end the run.
MainQuery(reply) ==
  /\ pc = "main_query"
  /\ LET identity == order[i]
         bundle == latest_bundles[identity]
         group_id == Lookup(identity).coords[1]
         artifact_id == Lookup(identity).coords[2]
         maven_info == get_latest_version_from_maven(reply)
         call == Ev("query", "main", identity, "", maven_info.version, maven_info.st, 0)
     IN IF maven_info.st = "raise"
        THEN /\ trace' = Append(trace, call)
             /\ pc' = "crashed"
             /\ UNCHANGED << results, i, latest_version >>
        ELSE IF maven_info.st = "none"
        THEN /\ results' = AppendTo(results, "unavailable",
                 [identity |-> identity, group_id |-> group_id, artifact_id |-> artifact_id,
                  local_version |-> bundle.version, url |-> bundle.url])
             /\ trace' = trace \o << call, Sleep("main", identity) >>
             /\ i' = i + 1 /\ pc' = "main_loop"
             /\ UNCHANGED latest_version
        ELSE IF maven_info.version = NoneV
        THEN /\ trace' = Append(trace, call)
             /\ pc' = "crashed"
             /\ UNCHANGED << results, i, latest_version >>
        ELSE IF compare_versions(bundle.version, maven_info.version) >= 0
        THEN /\ results' = AppendTo(results, "up_to_date",
                 [identity |-> identity, group_id |-> group_id, artifact_id |-> artifact_id,
                  version |-> bundle.version])
             /\ trace' = trace \o << call, Sleep("main", identity) >>
             /\ i' = i + 1 /\ pc' = "main_loop"
             /\ UNCHANGED latest_version
        ELSE IF bundle.url = NoneV
        THEN /\ trace' = Append(trace, call)
             /\ pc' = "crashed"
             /\ UNCHANGED << results, i, latest_version >>
        ELSE /\ trace' = Append(trace, call)
             /\ latest_version' = maven_info.version
             /\ pc' = "main_fetch"
             /\ UNCHANGED << results, i >>
  /\ UNCHANGED << config, index_exists, index, disk, pass, latest_bundles, order, j, repo_i,
                  additional_results, prev_results, fetch_in, fetch_ret, call_args, call_ret >>

\* main, lines 876-896: the download of the newer version.
MainFetch(resp) ==
  /\ pc = "main_fetch"
  /\ LET identity == order[i]
         bundle == latest_bundles[identity]
         group_id == Lookup(identity).coords[1]
         artifact_id == Lookup(identity).coords[2]
         dest_dir == get_dest_dir_from_url(bundle.url)
         got == download_jar(group_id, artifact_id, latest_version, dest_dir,
                             MAVEN_DOWNLOAD_URL, resp, disk)
         call == Ev("download", "main", identity, MAVEN_DOWNLOAD_URL, latest_version, got.ret, got.wrote)
     IN /\ disk' = got.disk
        /\ IF got.ret = "raise"
           THEN /\ trace' = Append(trace, call)
                /\ pc' = "crashed"
                /\ UNCHANGED << results, i >>
           ELSE /\ trace' = trace \o << call, Sleep("main", identity) >>
                /\ i' = i + 1 /\ pc' = "main_loop"
                /\ IF got.ret = "True"
                   THEN results' = AppendTo(results, "updated",
                          [identity |-> identity, group_id |-> group_id,
                           artifact_id |-> artifact_id, old_version |-> bundle.version,
                           new_version |-> latest_version])
                   ELSE results' = AppendTo(results, "errors",
                          [identity |-> identity, reason |-> "Failed to download",
                           group_id |-> group_id, artifact_id |-> artifact_id,
                           version |-> latest_version])
  /\ UNCHANGED << config, index_exists, index, pass, latest_bundles, order, j, latest_version, repo_i,
                  additional_results, prev_results, fetch_in, fetch_ret, call_args, call_ret >>

\* main, line 899: the loop is over, download_additional_bundles begins.
MainEnd ==
  /\ pc = "main_loop" /\ i > Len(order)
  /\ additional_results' = EmptyAdditional
  /\ j' = 1
  /\ pc' = "add_loop"
  /\ UNCHANGED << config, index_exists, index, disk, pass, latest_bundles, order, i, latest_version,
                  repo_i, results, prev_results, trace, fetch_in, fetch_ret, call_args, call_ret >>

\* ------------------------------------------------ download_additional_bundles

check_existing == mode = "sync"

ItemFolder(item) == IF item.folder = Absent THEN FolderMisc ELSE item.folder

ItemSource(item) == IF item.source = AbsentS THEN "Maven Central" ELSE item.source

\* '_comment' in item and 'groupId' not in item
IsCommentEntry(item) == item.comment /\ item.groupId = Absent

\* not group_id or not artifact_id
LacksCoordinate(item) == ~Truthy(item.groupId) \/ ~Truthy(item.artifactId)

AddRecord(version, source) ==
  [item |-> j, group_id |-> ADDITIONAL_DOWNLOADS[j].groupId,
   artifact_id |-> ADDITIONAL_DOWNLOADS[j].artifactId, version |-> version,
   folder |-> ItemFolder(ADDITIONAL_DOWNLOADS[j]), source |-> source]

AddError(reason) ==
  [item |-> j, group_id |-> ADDITIONAL_DOWNLOADS[j].groupId,
   artifact_id |-> ADDITIONAL_DOWNLOADS[j].artifactId, reason |-> reason]

\* Lines 498-511 (and 439-452 for BND Hub): with the version known, the
\* existence check under check_existing, else on to the download at next_pc.
AddResolved(name, version, calls, next_pc) ==
  LET item == ADDITIONAL_DOWNLOADS[j]
  IN IF check_existing /\ Exists(disk, ItemFolder(item), JarName(name, version))
     THEN /\ additional_results' =
               AppendTo(additional_results, "already_exists", AddRecord(version, ""))
          /\ j' = j + 1 /\ pc' = "add_loop"
          /\ trace' = trace \o calls
          /\ UNCHANGED latest_version
     ELSE /\ latest_version' = version
          /\ pc' = next_pc
          /\ trace' = trace \o calls
          /\ UNCHANGED << additional_results, j >>

\* Lines 417-475: the entries skipped without a record, the BND Hub branch up
\* to its download, the pinned version.
AddItem ==
  /\ pc = "add_loop" /\ j <= Len(ADDITIONAL_DOWNLOADS)
  /\ LET item == ADDITIONAL_DOWNLOADS[j]
     IN IF IsCommentEntry(item) \/ LacksCoordinate(item)
        THEN /\ j' = j + 1 /\ pc' = pc
             /\ UNCHANGED << additional_results, latest_version, trace >>
        ELSE IF ItemSource(item) = "BND Hub"
        THEN AddResolved(item.artifactId,
                         IF Truthy(item.version) THEN item.version ELSE HubDefaultVersion,
                         <<>>, "add_hub")
        ELSE IF Truthy(item.version)
        THEN AddResolved(item.artifactId, item.version, <<>>, "add_fetch")
        ELSE /\ pc' = "add_query"
             /\ UNCHANGED << additional_results, j, latest_version, trace >>
  /\ UNCHANGED << config, index_exists, index, disk, pass, latest_bundles, order, i,
                  repo_i, results, prev_results, fetch_in, fetch_ret, call_args, call_ret >>

\* Lines 454-470: the BND Hub download.
AddHub(resp) ==
  /\ pc = "add_hub"
  /\ LET item == ADDITIONAL_DOWNLOADS[j]
         got == download_from_bnd_hub(item.artifactId, latest_version, ItemFolder(item),
                                      resp, disk)
         call == Ev("hub", "add", j, "BND Hub", latest_version, got.ret, got.wrote)
     IN /\ disk' = got.disk
        /\ IF got.ret = "raise"
           THEN /\ trace' = Append(trace, call)
                /\ pc' = "crashed"
                /\ UNCHANGED << additional_results, j >>
           ELSE /\ trace' = trace \o << call, Sleep("add", j) >>
                /\ j' = j + 1 /\ pc' = "add_loop"
                /\ additional_results' =
                     IF got.ret = "True"
                     THEN AppendTo(additional_results, "downloaded",
                                   AddRecord(latest_version, "BND Hub"))
                     ELSE AppendTo(additional_results, "errors",
                                   AddError("Failed to download from BND Hub"))
  /\ UNCHANGED << config, index_exists, index, pass, latest_bundles, order, i,
                  latest_version, repo_i, results, prev_results, fetch_in, fetch_ret, call_args, call_ret >>

\* Lines 478-483: the query of Maven Central for an unpinned entry.
AddQuery(reply) ==
  /\ pc = "add_query"
  /\ LET item == ADDITIONAL_DOWNLOADS[j]
         maven_info == get_latest_version_from_maven(reply)
         call == Ev("query", "add", j, "", maven_info.version, maven_info.st, 0)
     IN IF maven_info.st = "raise"
        THEN /\ trace' = Append(trace, call)
             /\ pc' = "crashed"
             /\ UNCHANGED << additional_results, j, latest_version >>
        ELSE IF maven_info.st = "none"
        THEN /\ trace' = Append(trace, call)
             /\ pc' = "add_search"
             /\ UNCHANGED << additional_results, j, latest_version >>
        ELSE AddResolved(item.artifactId, maven_info.version, << call >>, "add_fetch")
  /\ UNCHANGED << config, index_exists, index, disk, pass, latest_bundles, order, i,
                  repo_i, results, prev_results, fetch_in, fetch_ret, call_args, call_ret >>

\* Lines 483-496: the mvnrepository fallback of the query.
AddSearch(page) ==
  /\ pc = "add_search"
  /\ LET item == ADDITIONAL_DOWNLOADS[j]
         maven_info == search_mvnrepository(page)
         call == Ev("search", "add", j, "", maven_info.version, maven_info.st, 0)
     IN IF maven_info.st = "none"
        THEN /\ additional_results' =
                  AppendTo(additional_results, "errors",
                           AddError("Not found on Maven Central or mvnrepository"))
             /\ trace' = trace \o << call, Sleep("add", j) >>
             /\ j' = j + 1 /\ pc' = "add_loop"
             /\ UNCHANGED latest_version
        ELSE AddResolved(item.artifactId, maven_info.version, << call >>, "add_fetch")
  /\ UNCHANGED << config, index_exists, index, disk, pass, latest_bundles, order, i,
                  repo_i, results, prev_results, fetch_in, fetch_ret, call_args, call_ret >>

\* The record and the sleep that end an iteration after its download (lines 533-550).
AddOutcome(success, source, calls) ==
  /\ additional_results' =
       IF success
       THEN AppendTo(additional_results, "downloaded", AddRecord(latest_version, source))
       ELSE AppendTo(additional_results, "errors",
                     AddError("Failed to download from any repository"))
  /\ trace' = trace \o calls \o << Sleep("add", j) >>
  /\ j' = j + 1 /\ pc' = "add_loop"

\* Mutant of HasCustomRepo: the repoUrl of an entry is never looked at.
HasCustomRepo_never(item) == FALSE

\* if repo_url: (line 516), repo_url being item.get('repoUrl').
HasCustomRepo(item) == item.repoUrl # AbsentS /\ item.repoUrl # ""

\* Lines 513-526: the first download, from the custom repository when the
\* entry names one and else from Maven Central.
AddFetch(resp) ==
  /\ pc = "add_fetch"
  /\ LET item == ADDITIONAL_DOWNLOADS[j]
         custom == HasCustomRepo(item)
         repo_url == IF custom THEN item.repoUrl ELSE MAVEN_DOWNLOAD_URL
         got == download_jar(item.groupId, item.artifactId, latest_version,
                             ItemFolder(item), repo_url, resp, disk)
         call == Ev("download", "add", j, repo_url, latest_version, got.ret, got.wrote)
     IN /\ disk' = got.disk
        /\ IF got.ret = "raise"
           THEN /\ trace' = Append(trace, call)
                /\ pc' = "crashed"
                /\ UNCHANGED << additional_results, j, repo_i >>
           ELSE IF custom \/ got.ret = "True"
           THEN /\ AddOutcome(got.ret = "True", repo_url, << call >>)
                /\ UNCHANGED repo_i
           ELSE /\ trace' = Append(trace, call)
                /\ repo_i' = 1
                /\ pc' = "add_multi"
                /\ UNCHANGED << additional_results, j >>
  /\ UNCHANGED << config, index_exists, index, pass, latest_bundles, order, i,
                  latest_version, results, prev_results, fetch_in, fetch_ret, call_args, call_ret >>

\* Mutant of StopsAt: the loop goes on after a success.
StopsAt_never(ret) == FALSE

\* if download_jar(...): return True, repo_name  (lines 171-172)
StopsAt(ret) == ret = "True"

\* download_jar_from_multiple_repos: one turn of its loop.  The first success
\* returns (True, repo_name); the end of the list returns (False, None).
download_jar_from_multiple_repos(resp) ==
  /\ pc = "add_multi"
  /\ LET item == ADDITIONAL_DOWNLOADS[j]
         repo_name == MAVEN_REPOSITORIES[repo_i]
         got == download_jar(item.groupId, item.artifactId, latest_version,
                             ItemFolder(item), repo_name, resp, disk)
         call == Ev("multi", "add", j, repo_name, latest_version, got.ret, got.wrote)
     IN /\ disk' = got.disk
        /\ IF got.ret = "raise"
           THEN /\ trace' = Append(trace, call)
                /\ pc' = "crashed"
                /\ UNCHANGED << additional_results, j, repo_i >>
           ELSE IF StopsAt(got.ret)
           THEN /\ AddOutcome(TRUE, repo_name, << call >>)
                /\ UNCHANGED repo_i
           ELSE IF repo_i < Len(MAVEN_REPOSITORIES)
           THEN /\ trace' = Append(trace, call)
                /\ repo_i' = repo_i + 1
                /\ UNCHANGED << additional_results, j, pc >>
           ELSE /\ AddOutcome(FALSE, "", << call >>)
                /\ UNCHANGED repo_i
  /\ UNCHANGED << config, index_exists, index, pass, latest_bundles, order, i,
                  latest_version, results, prev_results, fetch_in, fetch_ret, call_args, call_ret >>

\* -------------------------------------------------------- regenerate_index

\* BND_JAR, as a file under REPO_DIR.
BndName == << "b", "i", "z", ".", "a", "Q", "u", "t", "e", ".", "b", "n", "d" >>
BND_JAR == [dir |-> BndName, name |-> JarName(BndName, << "7", ".", "1", ".", "0" >>), data |-> JarBody]

RepoDirName == << "d", "e", "p", "e", "n", "d", "e", "n", "c", "i", "e", "s" >>

\* folder_path.rglob('*.jar')
IsJar(name) == Len(name) >= 4 /\ SubSeq(name, Len(name) - 3, Len(name)) = JarSuffix

\* The path of a file of REPO_DIR below REPO_ROOT, the directory of
\* INDEX_FILE and the working directory of the tool.
PathOf(f) ==
  RepoDirName \o << "/" >> \o (IF f.dir = <<>> THEN <<>> ELSE f.dir \o << "/" >>) \o f.name

RECURSIVE FirstDash(_, _)
FirstDash(name, k) ==
  IF k > Len(name) THEN 0
  ELSE IF name[k] = "-" THEN k
  ELSE FirstDash(name, k + 1)

\* The symbolic name the JAR published under an artifactId carries: the
\* identity the bundles table maps to that artifactId, C for the additional
\* JAR c, and the name itself otherwise.
SymbolicName(artifact_id) ==
  IF \E id \in Identities : CoordOf(id)[2] = artifact_id
  THEN CHOOSE id \in Identities : CoordOf(id)[2] = artifact_id
  ELSE IF artifact_id = ArtifactC THEN IdC
  ELSE artifact_id

\* The resource the index tool writes for one JAR <artifactId>-<version>.jar
\* handed to it: the tool is external and reads identity and version from the
\* JAR; the URL is the path of the file below the directory of the index.
ToolEntry(f) ==
  LET k == FirstDash(f.name, 1)
  IN IndexEntry(SymbolicName(SubSeq(f.name, 1, k - 1)),
                SubSeq(f.name, k + 1, Len(f.name) - 4), PathOf(f))

\* The index the tool writes for the JAR files d, in the order of their paths.
ToolIndex(d) ==
  LET jars == { f \in d : IsJar(f.name) }
      paths == SortStrings({ PathOf(f) : f \in jars })
  IN [k \in 1..Len(paths) |-> ToolEntry(CHOOSE f \in jars : PathOf(f) = paths[k])]

\* regenerate_index: False, and no new index, without the BND JAR or when the
\* tool fails (tool_ok false).  Otherwise the tool is handed every JAR under
\* the repository folders, BND_JAR among them, and the index it writes lists
\* these and nothing else: an entry of the old index whose JAR is not on disk
\* is gone.
regenerate_index(tool_ok) ==
  /\ index' = IF tool_ok THEN ToolIndex(disk \cup {BND_JAR}) ELSE index
  /\ index_exists' = (index_exists \/ tool_ok)

\* The end of download_additional_bundles and of the run: main writes its
\* report and regenerates the index (lines 901-1021); sync_dependencies
\* regenerates it only after a download (lines 729-733).
Finish(tool_ok) ==
  /\ pc = "add_loop" /\ j > Len(ADDITIONAL_DOWNLOADS)
  /\ IF mode = "default" \/ additional_results.downloaded # <<>>
     THEN regenerate_index(tool_ok)
     ELSE UNCHANGED << index, index_exists >>
  /\ pc' = "done"
  /\ UNCHANGED << config, disk, pass, latest_bundles, order, i, j, latest_version,
                  repo_i, results, additional_results, prev_results, trace,
                  fetch_in, fetch_ret, call_args, call_ret >>

\* The script is run again on what the previous run left.
Rerun ==
  /\ pc = "done" /\ mode = "default" /\ pass < MaxPasses
  /\ pass' = pass + 1
  /\ prev_results' = results
  /\ trace' = <<>>
  /\ pc' = "start"
  /\ UNCHANGED << config, index_exists, index, disk, latest_bundles, order, i, j,
                  latest_version, repo_i, results, additional_results,
                  fetch_in, fetch_ret, call_args, call_ret >>

\* sync_dependencies, line 699: download_additional_bundles(..., check_existing=True)
SyncStart ==
  /\ pc = "start" /\ mode = "sync"
  /\ additional_results' = EmptyAdditional
  /\ j' = 1
  /\ pc' = "add_loop"
  /\ UNCHANGED << config, index_exists, index, disk, pass, latest_bundles, order, i,
                  latest_version, repo_i, results, prev_results, trace,
                  fetch_in, fetch_ret, call_args, call_ret >>

\* One call of download_jar on the response fetch_in.
Fetch ==
  /\ pc = "start" /\ mode = "fetch"
  /\ LET got == download_jar(fetch_in.group_id, fetch_in.artifact_id, fetch_in.version,
                             fetch_in.dest_dir, MAVEN_DOWNLOAD_URL, fetch_in.resp, disk)
     IN /\ disk' = got.disk
        /\ fetch_ret' = got.ret
  /\ pc' = "done"
  /\ UNCHANGED << config, index_exists, index, pass, latest_bundles, order, i, j,
                  latest_version, repo_i, results, additional_results, prev_results,
                  trace, fetch_in, call_args, call_ret >>

\* One call of download_from_mvnrepository on the page and the responses of
\* call_args.  Nothing in the script calls the function.
FetchListed ==
  /\ pc = "start" /\ mode = "mvn"
  /\ LET got == download_from_mvnrepository(call_args.group_id, call_args.artifact_id,
                   call_args.version, call_args.dest_dir, call_args.page,
                   call_args.resps, disk)
     IN /\ disk' = got.disk
        /\ call_ret' = [ret |-> got.ret, repo_name |-> got.repo_name, attempts |-> got.attempts]
  /\ pc' = "done"
  /\ UNCHANGED << config, index_exists, index, pass, latest_bundles, order, i, j,
                  latest_version, repo_i, results, additional_results, prev_results,
                  trace, fetch_in, fetch_ret, call_args >>

\* ------------------------------------------------------------ specifications

ItemComment == Item(TRUE, Absent, Absent, Absent, Absent, AbsentS, AbsentS)
ItemLatest == Item(FALSE, GroupG, ArtifactC, Absent, Absent, AbsentS, AbsentS)

MainItems == {ItemComment, ItemLatest}

SyncItems ==
  { ItemComment,
    Item(FALSE, GroupG, Absent, Absent, Absent, AbsentS, AbsentS),
    Item(TRUE, GroupG, Absent, Absent, V9, AbsentS, AbsentS),
    Item(FALSE, Absent, ArtifactC, Absent, Absent, AbsentS, AbsentS) }
    \cup { Item(FALSE, GroupG, ArtifactC, Absent, v, s, r) :
             v \in {Absent, V9}, s \in {AbsentS, "BND Hub"}, r \in {AbsentS, "custom"} }

\* The JARs that may already lie in the folder of the additional downloads.
SyncFiles ==
  { [dir |-> FolderMisc, name |-> JarName(ArtifactC, v), data |-> JarBody] :
      v \in {V9, V10, HubDefaultVersion} }

\* The replies the runs meet: each outcome of the query, once per version.
RunReplies ==
  { MavenReply(k, Absent, Absent, TRUE) : k \in {"URLError", "ReadTimeout", "Zero", "NotObject"} }
    \cup { MavenReply("Doc", V10, Absent, TRUE), MavenReply("Doc", Absent, V10, TRUE),
           MavenReply("Doc", Absent, Absent, TRUE), MavenReply("Doc", V10, Absent, FALSE) }

NoFetch == [group_id |-> <<>>, artifact_id |-> <<>>, version |-> <<>>, dest_dir |-> <<>>,
            resp |-> Response("ok", "URLError", 0, EmptyBody), before |-> {}]

\* No function is called on its own in a run of the script.
NoCall == call_args = <<>> /\ call_ret = <<>>

InitCommon ==
  /\ pc = "start" /\ pass = 1
  /\ latest_bundles = << >> /\ order = <<>>
  /\ i = 1 /\ j = 1 /\ latest_version = NoneV /\ repo_i = 1
  /\ results = EmptyResults /\ additional_results = EmptyAdditional
  /\ prev_results = EmptyResults
  /\ trace = <<>>
  /\ fetch_ret = ""

\* The default run: dependencies.json missing or holding any bundles table,
\* any index up to MaxIndex entries.
Init ==
  /\ mode = "default"
  /\ config_exists \in BOOLEAN
  /\ IF config_exists
     THEN /\ BUNDLE_TO_MAVEN \in { load_config(c) : c \in RawConfigs }
          /\ ADDITIONAL_DOWNLOADS \in SeqsUpTo(MainItems, MaxAdd)
     ELSE /\ BUNDLE_TO_MAVEN = MissingConfig.bundle_to_maven
          /\ ADDITIONAL_DOWNLOADS = MissingConfig.additional_downloads
  /\ index_exists \in BOOLEAN
  /\ index \in SeqsUpTo(IndexEntries, MaxIndex)
  /\ (~index_exists => index = <<>>)
  /\ disk = {}
  /\ fetch_in = NoFetch
  /\ InitCommon /\ NoCall

Next ==
  \/ Start
  \/ MainLookup
  \/ \E reply \in RunReplies : MainQuery(reply)
  \/ \E resp \in RunResponses : MainFetch(resp)
  \/ MainEnd
  \/ AddItem
  \/ \E reply \in RunReplies : AddQuery(reply)
  \/ \E page \in Pages : AddSearch(page)
  \/ \E resp \in RunResponses : AddFetch(resp)
  \/ \E resp \in RunResponses : download_jar_from_multiple_repos(resp)
  \/ \E tool_ok \in BOOLEAN : Finish(tool_ok)

Spec == Init /\ [][Next]_vars

\* The JARs of version 9 that may lie in folder l when the runs begin.
StoredFiles ==
  { [dir |-> << "l" >>, name |-> JarName(CoordOf(id)[2], V9), data |-> JarBody] :
      id \in Identities }

\* The default run executed MaxPasses times in a row, each run reading the
\* index the previous one regenerated from the JARs on disk.
InitTwice ==
  /\ mode = "default"
  /\ BUNDLE_TO_MAVEN \in { load_config(c) : c \in RawConfigs }
  /\ index_exists = TRUE
  /\ index \in SeqsUpTo(IndexEntries, MaxIndexTwice)
  /\ ADDITIONAL_DOWNLOADS = <<>>
  /\ disk \in SUBSET StoredFiles
  /\ fetch_in = NoFetch
  /\ config_exists = TRUE
  /\ InitCommon /\ NoCall

NextTwice ==
  \/ Start
  \/ MainLookup
  \/ \E reply \in RunReplies : MainQuery(reply)
  \/ \E resp \in RunResponses : MainFetch(resp)
  \/ MainEnd
  \/ \E tool_ok \in BOOLEAN : Finish(tool_ok)
  \/ Rerun

SpecTwice == InitTwice /\ [][NextTwice]_vars

\* The --sync run: any additionalDownloads list up to MaxSync entries, any of
\* the JARs already on disk.
InitSync ==
  /\ mode = "sync"
  /\ BUNDLE_TO_MAVEN = << >>
  /\ index_exists = FALSE /\ index = <<>>
  /\ ADDITIONAL_DOWNLOADS \in SeqsUpTo(SyncItems, MaxSync)
  /\ disk \in SUBSET SyncFiles
  /\ fetch_in = [NoFetch EXCEPT !.before = disk]
  /\ config_exists = TRUE
  /\ InitCommon /\ NoCall

NextSync ==
  \/ SyncStart
  \/ AddItem
  \/ \E resp \in RunResponses : AddHub(resp)
  \/ \E reply \in RunReplies : AddQuery(reply)
  \/ \E page \in Pages : AddSearch(page)
  \/ \E resp \in RunResponses : AddFetch(resp)
  \/ \E resp \in RunResponses : download_jar_from_multiple_repos(resp)
  \/ \E tool_ok \in BOOLEAN : Finish(tool_ok)

SpecSync == InitSync /\ [][NextSync]_vars

\* download_jar alone, on every response: bodies around the 1000-byte
\* threshold with and without the marker in any letter case, every HTTP
\* status, transport and file-system outcome, with and without an older file
\* at the destination.
DirLib == << "l", "i", "b" >>
ArtifactA == << "a" >>

FetchHeads ==
  { << "<", "h", "t", "m", "l", ">" >>, << "<", "H", "T", "M", "L", ">" >>,
    << "P", "K", "<", "H", "t", "m", "l" >>, << "<", "h", "t", "m", ">" >>, << "P", "K" >>,
    <<>> }

FetchFills == {0, 992, 993, 994, 2000}

FetchBodies == { [head |-> h, fill |-> f] : h \in FetchHeads, f \in FetchFills }

FetchStatuses == {199, 200, 204, 299, 300, 304, 399, 400, 404, 500}

FetchResponses ==
  { Response(fs, "response", st, b) :
      fs \in {"ok", "mkdir_fail", "open_fail", "write_fail"}, st \in FetchStatuses,
      b \in FetchBodies }
    \cup { [Response("write_fail", "response", st, b) EXCEPT !.cut = 500] :
             st \in FetchStatuses, b \in { x \in FetchBodies : BodyLen(x) > 500 } }
    \cup { Response("ok", "URLError", 0, EmptyBody), Response("ok", "ReadTimeout", 200, EmptyBody) }

OldFile == [dir |-> DirLib, name |-> JarName(ArtifactA, V10), data |-> JarBody]

\* The pages of mvnrepository.com: naming no repository, one, or all three.
MvnHtmls ==
  { <<>>, MarkerJBossHost, MarkerSpring \o << " " >> \o MarkerCentralHost,
    MarkerCentral \o << " " >> \o MarkerSpringHost \o << " " >> \o MarkerJBossHost }

MvnPages ==
  { [kind |-> "Error", anchor |-> Absent, html |-> <<>>] }
    \cup { [kind |-> "Page", anchor |-> a, html |-> h] : a \in {Absent, V10}, h \in MvnHtmls }

\* What one listed repository answers: the JAR, the JAR with status 304, 404,
\* no connection, or the JAR while the write fails after 500 bytes.
MvnResponses ==
  { Response("ok", "response", 200, JarBody), Response("ok", "response", 304, JarBody),
    Response("ok", "response", 404, HtmlBody), Response("ok", "URLError", 0, EmptyBody),
    [Response("write_fail", "response", 200, JarBody) EXCEPT !.cut = 500] }

\* One download function called on its own: download_jar on one response, or
\* download_from_mvnrepository on one page and one response per repository.
InitFetch ==
  /\ BUNDLE_TO_MAVEN = << >>
  /\ index_exists = FALSE /\ index = <<>>
  /\ ADDITIONAL_DOWNLOADS = <<>>
  /\ config_exists = TRUE
  /\ InitCommon
  /\ call_ret = <<>>
  /\ \/ /\ mode = "fetch"
        /\ disk \in {{}, {OldFile}}
        /\ \E resp \in FetchResponses :
             fetch_in = [group_id |-> GroupG, artifact_id |-> ArtifactA, version |-> V10,
                         dest_dir |-> DirLib, resp |-> resp, before |-> disk]
        /\ call_args = <<>>
     \/ /\ mode = "mvn"
        /\ disk = {}
        /\ fetch_in = NoFetch
        /\ \E page \in MvnPages, version \in {V10, NoneV}, resps \in [1..3 -> MvnResponses] :
             call_args = [group_id |-> GroupG, artifact_id |-> ArtifactA, version |-> version,
                          dest_dir |-> DirLib, page |-> page, resps |-> resps]

NextFetch == Fetch \/ FetchListed

SpecFetch == InitFetch /\ [][NextFetch]_vars

\* ---------------------------------------------- compare_versions on its own

\* The version strings compare_versions is called on: plain numeric versions,
\* versions of different length, a leading zero, an empty piece, an empty
\* string, integer and non-integer pieces at one position, and the release
\* qualifiers after each delimiter and in several letter cases.
CompareVersions ==
  { << "1", ".", "2", ".", "0" >>,
    << "1", ".", "1", "0", ".", "0" >>,
    << "1", ".", "0" >>,
    << "1", ".", "0", ".", "0" >>,
    << "1", ".", ".", "0" >>,
    << "9" >>,
    << "1", "0" >>,
    << "0", "1", "0" >>,
    << "1", "a" >>,
    << >>,
    << "2", ".", "0", ".", "0" >>,
    << "2", ".", "0", ".", "0", "-", "R", "E", "L", "E", "A", "S", "E" >>,
    << "2", ".", "0", ".", "0", ".", "R", "E", "L", "E", "A", "S", "E" >>,
    << "2", ".", "0", ".", "0", "_", "g", "a" >>,
    << "2", ".", "0", ".", "0", ".", "F", "i", "n", "a", "l" >>,
    << "2", "-", "0", "-", "0", "-", "F", "i", "n", "a", "l" >> }

\* The pairs of positions of the three strings of a call.
ComparePairs == {1, 2, 3} \X {1, 2, 3}

\* compare_versions is called on every pair of the three strings in call_args.
Compare ==
  /\ pc = "start" /\ mode = "compare"
  /\ call_ret' = [p \in ComparePairs |-> compare_versions(call_args[p[1]], call_args[p[2]])]
  /\ pc' = "done"
  /\ UNCHANGED << config, index_exists, index, disk, pass, latest_bundles, order, i, j,
                  latest_version, repo_i, results, additional_results, prev_results,
                  trace, fetch_in, fetch_ret, call_args >>

InitCompare ==
  /\ mode = "compare"
  /\ BUNDLE_TO_MAVEN = << >>
  /\ index_exists = FALSE /\ index = <<>>
  /\ ADDITIONAL_DOWNLOADS = <<>>
  /\ disk = {}
  /\ fetch_in = NoFetch
  /\ config_exists = TRUE
  /\ InitCommon
  /\ call_args \in CompareVersions \X CompareVersions \X CompareVersions
  /\ call_ret = <<>>

NextCompare == Compare

SpecCompare == InitCompare /\ [][NextCompare]_vars

\* ------------------------------------ get_latest_version_from_bnd_hub on its own

\* The sort key of a version (line 270): its pieces, the all-digit ones as
\* integers; no qualifier is stripped.
HubKey(v) == LET parts == Split(v) IN [k \in 1..Len(parts) |-> Token(parts[k])]

\* key1 < key2 on two such lists, as Python compares lists: the first pair of
\* unequal elements decides, an integer never being equal to a string; an
\* integer against a string raises TypeError; without an unequal pair the
\* shorter list is the smaller.
RECURSIVE KeyLess(_, _, _)
KeyLess(k1, k2, n) ==
  IF n > Len(k1) \/ n > Len(k2) THEN (IF Len(k1) < Len(k2) THEN "True" ELSE "False")
  ELSE IF k1[n] = k2[n] THEN KeyLess(k1, k2, n + 1)
  ELSE IF k1[n].int /\ k2[n].int THEN (IF k1[n].n < k2[n].n THEN "True" ELSE "False")
  ELSE IF ~k1[n].int /\ ~k2[n].int
  THEN (IF StrLess(k1[n].s, k2[n].s) THEN "True" ELSE "False")
  ELSE "raise"

\* versions.sort(key=..., reverse=True) is the list sort of the interpreter:
\* the list is reversed, sorted ascending and reversed again, and the sort of
\* a list shorter than 64 is one run detection followed by a binary
\* insertion sort.  Every key comparison it makes is KeyLess; the first one
\* that raises ends the sort with the TypeError.

Reverse(s) == [k \in 1..Len(s) |-> s[Len(s) + 1 - k]]

HubLess(x, y) == KeyLess(HubKey(x), HubKey(y), 1)

\* The length of the run that starts the list: a[k] < a[k-1] is asked for
\* k = 3, 4, ... as long as the answer agrees with the direction of the run.
\* n = 0 stands for a comparison that raised.
RECURSIVE SortRunEnd(_, _, _)
SortRunEnd(a, k, descending) ==
  IF k > Len(a) THEN Len(a)
  ELSE LET lt == HubLess(a[k], a[k - 1])
       IN IF lt = "raise" THEN 0
          ELSE IF (lt = "True") = descending THEN SortRunEnd(a, k + 1, descending)
          ELSE k - 1

\* The list with its leading run made ascending, and the length of that run.
SortCountRun(a) ==
  LET lt == HubLess(a[2], a[1])
      n  == IF lt = "raise" THEN 0 ELSE SortRunEnd(a, 3, lt = "True")
  IN [n |-> n,
      a |-> IF lt = "True" /\ n > 0
            THEN Reverse(SubSeq(a, 1, n)) \o SubSeq(a, n + 1, Len(a))
            ELSE a]

\* The place of pivot among the sorted a[l..r-1]: the leftmost place after
\* every element the pivot is not smaller than; 0 when a comparison raised.
RECURSIVE SortPlace(_, _, _, _)
SortPlace(a, pivot, l, r) ==
  LET p  == l + ((r - l) \div 2)
      lt == HubLess(pivot, a[p])
      l2 == IF lt = "True" THEN l ELSE p + 1
      r2 == IF lt = "True" THEN p ELSE r
  IN IF lt = "raise" THEN 0
     ELSE IF l2 < r2 THEN SortPlace(a, pivot, l2, r2)
     ELSE l2

\* Binary insertion of a[start], a[start+1], ... into the sorted a[1..start-1].
RECURSIVE SortBinary(_, _)
SortBinary(a, start) ==
  IF start > Len(a) THEN [st |-> "ok", a |-> a]
  ELSE LET at == SortPlace(a, a[start], 1, start)
       IN IF at = 0 THEN [st |-> "raise", a |-> a]
          ELSE SortBinary(SubSeq(a, 1, at - 1) \o << a[start] >> \o
                          SubSeq(a, at, start - 1) \o SubSeq(a, start + 1, Len(a)),
                          start + 1)

\* The list after versions.sort(key=..., reverse=True), or the raise.
HubSorted(versions) ==
  IF Len(versions) < 2 THEN [st |-> "ok", a |-> versions]
  ELSE LET run == SortCountRun(Reverse(versions))
       IN IF run.n = 0 THEN [st |-> "raise", a |-> versions]
          ELSE LET sorted == SortBinary(run.a, run.n + 1)
               IN [st |-> sorted.st, a |-> Reverse(sorted.a)]

\* versions.sort(...); versions[0]
HubFirst(versions) ==
  LET sorted == HubSorted(versions)
  IN IF sorted.st = "raise" THEN [st |-> "raise", version |-> NoneV]
     ELSE [st |-> "ok", version |-> sorted.a[1]]

\* s.endswith(suffix) and s.startswith(prefix).
EndsWith(s, suffix) ==
  Len(s) >= Len(suffix) /\ SubSeq(s, Len(s) - Len(suffix) + 1, Len(s)) = suffix

StartsWith(s, prefix) == Len(s) >= Len(prefix) /\ SubSeq(s, 1, Len(prefix)) = prefix

\* Lines 259-266: the versions of the files <bundle_name>-<version>.jar of a listing.
HubVersionsOf(bundle_name, data) ==
  LET jars == SelectSeq(data, LAMBDA item :
                /\ item.type = "file" /\ EndsWith(item.name, JarSuffix)
                /\ StartsWith(item.name, bundle_name \o << "-" >>))
  IN [k \in 1..Len(jars) |->
        SubSeq(jars[k].name, Len(bundle_name) + 2, Len(jars[k].name) - 4)]

\* get_latest_version_from_bnd_hub: None on URLError and on a listing without
\* such a file; a timeout while the body is read, and the TypeError of the
\* sort, are not caught.
get_latest_version_from_bnd_hub(bundle_name, reply) ==
  IF reply.net = "URLError" THEN [st |-> "none", version |-> NoneV]
  ELSE IF reply.net = "ReadTimeout" THEN [st |-> "raise", version |-> NoneV]
  ELSE LET versions == HubVersionsOf(bundle_name, reply.data)
       IN IF versions = <<>> THEN [st |-> "none", version |-> NoneV]
          ELSE HubFirst(versions)

\* The versions of the listings: numeric ones, one shorter, and two with a
\* non-integer piece where the others hold an integer.
HubVersions ==
  { << "4", ".", "3", ".", "0" >>, << "4", ".", "1", "0", ".", "0" >>, << "4", ".", "3" >>,
    << "1", "0" >>, << "1", "a" >>, << "4", ".", "x" >> }

HubItems ==
  { [type |-> "file", name |-> JarName(ArtifactC, v)] : v \in HubVersions }
    \cup { [type |-> "dir", name |-> JarName(ArtifactC, << "9" >>)],
           [type |-> "file", name |-> JarName(ArtifactA, << "9" >>)] }

\* The listings hold up to MaxListing entries: three entries are the fewest
\* for which the sort compares more than one pair.
HubListings == UNION { [1..n -> HubItems] : n \in 0..MaxListing }

HubReplies ==
  { [net |-> "URLError", data |-> <<>>], [net |-> "ReadTimeout", data |-> <<>>] }
    \cup { [net |-> "response", data |-> l] : l \in HubListings }

HubLookup ==
  /\ pc = "start" /\ mode = "hub"
  /\ call_ret' = get_latest_version_from_bnd_hub(call_args.bundle_name, call_args.reply)
  /\ pc' = "done"
  /\ UNCHANGED << config, index_exists, index, disk, pass, latest_bundles, order, i, j,
                  latest_version, repo_i, results, additional_results, prev_results,
                  trace, fetch_in, fetch_ret, call_args >>

InitHub ==
  /\ mode = "hub"
  /\ BUNDLE_TO_MAVEN = << >>
  /\ index_exists = FALSE /\ index = <<>>
  /\ ADDITIONAL_DOWNLOADS = <<>>
  /\ disk = {}
  /\ fetch_in = NoFetch
  /\ config_exists = TRUE
  /\ InitCommon
  /\ \E reply \in HubReplies : call_args = [bundle_name |-> ArtifactC, reply |-> reply]
  /\ call_ret = <<>>

NextHub == HubLookup

SpecHub == InitHub /\ [][NextHub]_vars

\* ------------------------------------------------------------------ claims

ResultLists == {"updated", "up_to_date", "unavailable", "local_only", "not_mapped", "errors"}

AdditionalLists == {"downloaded", "already_exists", "errors"}

\* The lists of main's results that hold a record of identity id.
ListsOf(id) ==
  { l \in ResultLists : \E k \in 1..Len(results[l]) : results[l][k].identity = id }

\* How many records of identity id the six lists hold together.
RECURSIVE CountIn(_, _)
CountIn(seq, id) ==
  IF seq = <<>> THEN 0
  ELSE (IF Head(seq).identity = id THEN 1 ELSE 0) + CountIn(Tail(seq), id)

Recorded(id) ==
  CountIn(results.updated, id) + CountIn(results.up_to_date, id)
    + CountIn(results.unavailable, id) + CountIn(results.local_only, id)
    + CountIn(results.not_mapped, id) + CountIn(results.errors, id)

\* The calls and sleeps made while loop worked on key; the network calls among them.
EventsOf(loop, key) == SelectSeq(trace, LAMBDA e : e.loop = loop /\ e.key = key)

NetEventsOf(loop, key) ==
  SelectSeq(trace, LAMBDA e : e.loop = loop /\ e.key = key /\ e.op \in NetOps)

OpEventsOf(loop, key, ops) ==
  SelectSeq(trace, LAMBDA e : e.loop = loop /\ e.key = key /\ e.op \in ops)

\* The identities whose turn in main's loop is over.
Processed == { order[k] : k \in 1..(i - 1) }

\* C1: in the default run every identity retained from the index is, when
\* the run has ended, in exactly one of the six result lists.
C1_ExactlyOneList ==
  (mode = "default" /\ pc \in {"done", "crashed"}) =>
    \A id \in DOMAIN latest_bundles : Recorded(id) = 1

\* The outcome the decision order gives identity id, from its mapping, the
\* answer its version query got and the result its download returned.
Decided(id) ==
  IF id \notin DOMAIN BUNDLE_TO_MAVEN THEN "not_mapped"
  ELSE IF BUNDLE_TO_MAVEN[id] = NoneV THEN "local_only"
  ELSE LET q == OpEventsOf("main", id, {"query"})
           d == OpEventsOf("main", id, {"download"})
       IN IF Len(q) # 1 THEN "no query"
          ELSE IF q[1].res = "none" THEN "unavailable"
          ELSE IF q[1].res # "ok" \/ q[1].ver = NoneV THEN "no version"
          ELSE IF compare_versions(latest_bundles[id].version, q[1].ver) >= 0 THEN "up_to_date"
          ELSE IF Len(d) # 1 THEN "no download"
          ELSE IF d[1].res = "True" THEN "updated"
          ELSE IF d[1].res = "False" THEN "errors"
          ELSE "no result"

\* C2: every index-derived entry that got an outcome got the one of the
\* decision order: NotMapped, LocalOnly, Unavailable when the query returned
\* nothing, UpToDate when compare(local, resolved) >= 0, and else Updated
\* (old = local, new = resolved, the JAR written in the directory named by the
\* first segment of the entry's URL) when the download returned success and
\* Error when it returned failure.
C2_DecisionOrder ==
  \A id \in Processed :
    /\ ListsOf(id) = { Decided(id) }
    /\ \A k \in 1..Len(results.updated) :
         results.updated[k].identity = id =>
           LET rec == results.updated[k]
               q == OpEventsOf("main", id, {"query"})
           IN /\ rec.old_version = latest_bundles[id].version
              /\ rec.new_version = q[1].ver
              /\ << rec.group_id, rec.artifact_id >> = BUNDLE_TO_MAVEN[id]
              /\ \E f \in disk :
                   /\ f.dir = FirstSegment(latest_bundles[id].url)
                   /\ f.name = rec.artifact_id \o << "-" >> \o rec.new_version \o JarSuffix
                   /\ f.data = JarBody

\* C2 witness: the run ended with X updated from 9 to 10, its JAR in folder l,
\* and with another entry that failed to download.
C2_Witness ==
  /\ pc = "done"
  /\ \E k \in 1..Len(results.updated) :
       /\ results.updated[k].identity = IdX
       /\ results.updated[k].old_version = V9
       /\ results.updated[k].new_version = V10
  /\ \E f \in disk : f.dir = << "l" >> /\ f.name = << "a", "-", "1", "0", ".", "j", "a", "r" >>
  /\ results.errors # <<>>

\* C3: no network call is made while main works on an identity that is not
\* in the mapping table, and such an identity is recorded as NotMapped.
C3_NotMappedNoNetworkCall ==
  /\ \A k \in 1..Len(trace) :
       (trace[k].loop = "main" /\ trace[k].op \in NetOps) =>
         trace[k].key \in DOMAIN BUNDLE_TO_MAVEN
  /\ \A id \in Processed :
       id \notin DOMAIN BUNDLE_TO_MAVEN =>
         /\ ListsOf(id) = {"not_mapped"}
         /\ EventsOf("main", id) = <<>>

\* C3 witness: the run ended with Y recorded as NotMapped after X was queried.
C3_Witness ==
  /\ pc = "done"
  /\ \E k \in 1..Len(results.not_mapped) : results.not_mapped[k].identity = IdY
  /\ NetEventsOf("main", IdX) # <<>>

\* C4: no failure of a version query or of a download ends the run.
C4_RunNeverAborted == pc # "crashed"

\* C5: in a second run on the regenerated index, which lists the old and
\* the new version of an identity the first run updated, with the upstream
\* answering as before, that identity is UpToDate and nothing is downloaded.
C5_SecondPassUpToDate ==
  (pass = 2 /\ pc = "add_loop") =>
    \A k \in 1..Len(prev_results.updated) :
      LET rec == prev_results.updated[k]
          q == OpEventsOf("main", rec.identity, {"query"})
          listed(v) == \E n \in 1..Len(index) :
                         index[n].identity = rec.identity /\ index[n].version = v
      IN (/\ listed(rec.old_version) /\ listed(rec.new_version)
          /\ Len(q) = 1 /\ q[1].res = "ok" /\ q[1].ver = rec.new_version)
         => /\ ListsOf(rec.identity) = {"up_to_date"}
            /\ OpEventsOf("main", rec.identity, {"download"}) = <<>>

\* C6: the entry kept for an identity is the highest of its index entries
\* under compare_versions.
C6_KeptIsHighest ==
  (pc \notin {"start", "done"}) =>
    \A id \in DOMAIN latest_bundles :
      \A n \in 1..Len(index) :
        (index[n].identity = id /\ Truthy(index[n].version)) =>
          compare_versions(latest_bundles[id].version, index[n].version) >= 0

\* How many records of position k download_additional_bundles' list l holds.
RECURSIVE CountItem(_, _)
CountItem(seq, k) ==
  IF seq = <<>> THEN 0
  ELSE (IF Head(seq).item = k THEN 1 ELSE 0) + CountItem(Tail(seq), k)

AddRecorded(k) ==
  CountItem(additional_results.downloaded, k) + CountItem(additional_results.already_exists, k)
    + CountItem(additional_results.errors, k)

DownloadOps == {"download", "multi", "hub"}

\* <folder>/<artifactId>-<version>.jar of an entry.
TargetOnDisk(d, item, version) ==
  \E f \in d : /\ f.dir = (IF item.folder = Absent THEN << "m", "i", "s", "c" >> ELSE item.folder)
               /\ f.name = item.artifactId \o << "-" >> \o Fmt(version) \o << ".", "j", "a", "r" >>

\* An entry whose version needs no query: pinned, or from BND Hub.
VersionKnown(item) == Truthy(item.version) \/ item.source = "BND Hub"

KnownVersion(item) == IF Truthy(item.version) THEN item.version ELSE << "4", ".", "3", ".", "0" >>

\* C7 as claimed: under --sync no network call of any kind is made for an
\* entry reported as already existing.
C7_NoCallWhenExists ==
  mode = "sync" =>
    \A n \in 1..Len(additional_results.already_exists) :
      NetEventsOf("add", additional_results.already_exists[n].item) = <<>>

\* C7 amended: under --sync an entry reported as already existing has its
\* JAR on disk and no download was made for it; no call at all was made when
\* its version is pinned or its source is BND Hub; an unpinned Maven entry has
\* made the version query, and the mvnrepository search when that found
\* nothing, whose answer names the JAR.  And an entry whose JAR was on disk
\* when the run began, under its known or answered version, is so reported.
C7_NoDownloadWhenExists ==
  mode = "sync" =>
    /\ \A n \in 1..Len(additional_results.already_exists) :
         LET rec == additional_results.already_exists[n]
             item == ADDITIONAL_DOWNLOADS[rec.item]
             ev == NetEventsOf("add", rec.item)
         IN /\ TargetOnDisk(disk, item, rec.version)
            /\ OpEventsOf("add", rec.item, DownloadOps) = <<>>
            /\ IF VersionKnown(item)
               THEN ev = <<>> /\ rec.version = KnownVersion(item)
               ELSE /\ Len(ev) \in {1, 2}
                    /\ ev[1].op = "query"
                    /\ (Len(ev) = 1 => ev[1].res = "ok")
                    /\ (Len(ev) = 2 => ev[1].res = "none" /\ ev[2].op = "search" /\ ev[2].res = "ok")
                    /\ ev[Len(ev)].ver = rec.version
    /\ \A k \in 1..(j - 1) :
         LET item == ADDITIONAL_DOWNLOADS[k]
             ev == NetEventsOf("add", k)
             found == IF Truthy(item.groupId) /\ Truthy(item.artifactId)
                      THEN (IF VersionKnown(item)
                            THEN TargetOnDisk(fetch_in.before, item, KnownVersion(item))
                            ELSE \E m \in 1..Len(ev) :
                                   /\ ev[m].op \in {"query", "search"} /\ ev[m].res = "ok"
                                   /\ TargetOnDisk(fetch_in.before, item, ev[m].ver))
                      ELSE FALSE
         IN found => /\ CountItem(additional_results.already_exists, k) = 1
                     /\ OpEventsOf("add", k, DownloadOps) = <<>>

\* C7 witness: the --sync run ended having reported an unpinned Maven entry as
\* already existing after its version query, and a pinned one without any call.
C7_Witness ==
  /\ mode = "sync" /\ pc = "done"
  /\ \E n \in 1..Len(additional_results.already_exists) :
       LET rec == additional_results.already_exists[n]
       IN /\ ~VersionKnown(ADDITIONAL_DOWNLOADS[rec.item])
          /\ NetEventsOf("add", rec.item) # <<>>
  /\ \E n \in 1..Len(additional_results.already_exists) :
       LET rec == additional_results.already_exists[n]
       IN /\ Truthy(ADDITIONAL_DOWNLOADS[rec.item].version)
          /\ NetEventsOf("add", rec.item) = <<>>

\* C8: when download_additional_bundles has returned, every entry that is not
\* a pure annotation (a _comment and no groupId) has exactly one record in
\* downloaded, already_exists or errors.
C8_OneRecordPerEntry ==
  (mode = "sync" /\ pc = "done") =>
    \A k \in 1..Len(ADDITIONAL_DOWNLOADS) :
      ~(ADDITIONAL_DOWNLOADS[k].comment /\ ADDITIONAL_DOWNLOADS[k].groupId = Absent) =>
        AddRecorded(k) = 1

C9_ListedOrder == << "Maven Central", "Spring Plugins", "Spring Libs", "JBoss", "Sonatype" >>

RECURSIVE SumWrote(_)
SumWrote(evs) == IF evs = <<>> THEN 0 ELSE Head(evs).wrote + SumWrote(Tail(evs))

\* C9: the attempts of download_jar_from_multiple_repos follow the listed
\* order; every attempt before the last returned failure and wrote nothing;
\* when the call returned, either its last attempt succeeded, the entry is
\* recorded as downloaded from that repository and exactly one file was
\* written, or all five repositories failed, nothing was written and the
\* entry is recorded as an error.
C9_FallbackOrder ==
  \A k \in 1..Len(ADDITIONAL_DOWNLOADS) :
    LET M == OpEventsOf("add", k, {"multi"})
    IN /\ Len(M) <= Len(C9_ListedOrder)
       /\ \A n \in 1..Len(M) : M[n].arg = C9_ListedOrder[n]
       /\ \A n \in 1..(Len(M) - 1) : M[n].res = "False" /\ M[n].wrote = 0
       /\ (k < j /\ M # <<>>) =>
            IF M[Len(M)].res = "True"
            THEN /\ SumWrote(M) = 1
                 /\ TargetOnDisk(disk, ADDITIONAL_DOWNLOADS[k], M[Len(M)].ver)
                 /\ CountItem(additional_results.errors, k) = 0
                 /\ \E n \in 1..Len(additional_results.downloaded) :
                      /\ additional_results.downloaded[n].item = k
                      /\ additional_results.downloaded[n].source = M[Len(M)].arg
            ELSE /\ M[Len(M)].res = "False"
                 /\ Len(M) = Len(C9_ListedOrder)
                 /\ SumWrote(M) = 0
                 /\ CountItem(additional_results.downloaded, k) = 0
                 /\ CountItem(additional_results.errors, k) = 1

\* C9 witness: the run ended with an entry downloaded from the third
\* repository after the first two failed, and another that failed everywhere.
C9_Witness ==
  /\ pc = "done"
  /\ \E k \in 1..Len(ADDITIONAL_DOWNLOADS) :
       LET M == OpEventsOf("add", k, {"multi"})
       IN /\ Len(M) = 3 /\ M[1].res = "False" /\ M[2].res = "False" /\ M[3].res = "True"
          /\ \E n \in 1..Len(additional_results.downloaded) :
               /\ additional_results.downloaded[n].item = k
               /\ additional_results.downloaded[n].source = "Spring Libs"
  /\ \E k \in 1..Len(ADDITIONAL_DOWNLOADS) :
       LET M == OpEventsOf("add", k, {"multi"})
       IN Len(M) = 5 /\ M[5].res = "False"

\* The body the fetch received: the body sent, none for a 204 response.
C10_Body ==
  IF fetch_in.resp.status = 204 THEN [head |-> <<>>, fill |-> 0] ELSE fetch_in.resp.body

\* The body is shorter than 1000 bytes and holds '<html' in some letter case.
C10_ErrorPage ==
  /\ Len(C10_Body.head) + C10_Body.fill < 1000
  /\ \E n \in 0..(Len(C10_Body.head) - 5) :
       Lower(SubSeq(C10_Body.head, n + 1, n + 5)) = << "<", "h", "t", "m", "l" >>

\* The disk with the body written unchanged to <dest_dir>/<artifactId>-<version>.jar.
C10_Written ==
  LET name == fetch_in.artifact_id \o << "-" >> \o fetch_in.version \o << ".", "j", "a", "r" >>
  IN { f \in fetch_in.before : ~(f.dir = fetch_in.dest_dir /\ f.name = name) }
       \cup { [dir |-> fetch_in.dest_dir, name |-> name, data |-> C10_Body] }

\* C10 as claimed, on a destination that can be written: whatever the HTTP
\* status, an error page fails and writes nothing, and any other body is
\* written unchanged and succeeds.
C10_AnyStatus ==
  (mode = "fetch" /\ pc = "done" /\ fetch_in.resp.net = "response" /\ fetch_in.resp.fs = "ok") =>
    IF C10_ErrorPage
    THEN fetch_ret = "False" /\ disk = fetch_in.before
    ELSE fetch_ret = "True" /\ disk = C10_Written

\* The final HTTP status is one of 200..299.
C10_Status2xx == fetch_in.resp.status \in 200..299

\* C10 amended, on a destination that can be written: an error page fails
\* and leaves the disk as it was, whatever the HTTP status; so does every
\* body that comes with a status outside 200..299; any other body that comes
\* with a status of 200..299 is written unchanged and the fetch succeeds.
C10_ErrorPageRejected ==
  (mode = "fetch" /\ pc = "done" /\ fetch_in.resp.net = "response" /\ fetch_in.resp.fs = "ok") =>
    IF C10_ErrorPage \/ ~C10_Status2xx
    THEN fetch_ret = "False" /\ disk = fetch_in.before
    ELSE fetch_ret = "True" /\ disk = C10_Written

\* C10 witness: a 999-byte body with <HTML> and status 200 was refused and the
\* older file at the destination is as it was.
C10_Witness ==
  /\ mode = "fetch" /\ pc = "done"
  /\ fetch_in.resp.status = 200 /\ fetch_in.resp.fs = "ok"
  /\ fetch_in.resp.body = [head |-> << "<", "H", "T", "M", "L", ">" >>, fill |-> 993]
  /\ fetch_in.before # {}
  /\ fetch_ret = "False" /\ disk = fetch_in.before

\* C11: compare_versions is reflexive and antisymmetric: on every pair of the
\* three strings of a call, compare(v, v) = 0 and compare(a, b) = -compare(b, a).
C11_ReflexiveAntisymmetric ==
  (mode = "compare" /\ pc = "done") =>
    /\ \A x \in {1, 2, 3} : call_ret[<< x, x >>] = 0
    /\ \A x, y \in {1, 2, 3} : call_ret[<< x, y >>] = 0 - call_ret[<< y, x >>]

\* C11 witness: 10 and 1a were compared both ways (an integer piece against a
\* non-integer one) and the two results are -1 and 1.
C11_Witness ==
  /\ mode = "compare" /\ pc = "done"
  /\ call_args[1] = << "1", "0" >> /\ call_args[2] = << "1", "a" >>
  /\ call_ret[<< 1, 2 >>] = -1 /\ call_ret[<< 2, 1 >>] = 1 /\ call_ret[<< 1, 1 >>] = 0

Sign(n) == IF n < 0 THEN -1 ELSE IF n > 0 THEN 1 ELSE 0

\* What the first unequal pair of pieces of two versions decides, or their
\* lengths when one is a prefix of the other.
C12_Expected(v1, v2) ==
  LET n1 == normalize(v1)
      n2 == normalize(v2)
      m == IF Len(n1) < Len(n2) THEN Len(n1) ELSE Len(n2)
      D == { k \in 1..m : n1[k] # n2[k] }
  IN IF D = {} THEN Sign(Len(n1) - Len(n2))
     ELSE LET k == CHOOSE d \in D : \A e \in D : d <= e
          IN IF n1[k].int /\ n2[k].int THEN Sign(n1[k].n - n2[k].n)
             ELSE IF StrLess(TokStr(n1[k]), TokStr(n2[k])) THEN -1 ELSE 1

\* C12: compare_versions returns what the first unequal pair of pieces decides,
\* numerically when both are integers and by their string forms otherwise, and
\* when there is no unequal pair the longer version is the greater.
C12_FirstUnequalToken ==
  (mode = "compare" /\ pc = "done") =>
    \A p \in ComparePairs : call_ret[p] = C12_Expected(call_args[p[1]], call_args[p[2]])

\* C12 witness: 1.2.0 < 1.10.0 and 1.0 < 1.2.0 < 1.10.0 were computed, each
\* decided by a numeric pair.
C12_Witness ==
  /\ mode = "compare" /\ pc = "done"
  /\ call_args = << << "1", ".", "2", ".", "0" >>, << "1", ".", "1", "0", ".", "0" >>,
                    << "1", ".", "0" >> >>
  /\ call_ret[<< 1, 2 >>] = -1 /\ call_ret[<< 3, 1 >>] = -1 /\ call_ret[<< 2, 3 >>] = 1

\* v1 is v2 followed by a delimiter and a release qualifier in some letter case.
C13_Qualified(v1, v2) ==
  \E q \in { << "r", "e", "l", "e", "a", "s", "e" >>, << "f", "i", "n", "a", "l" >>,
             << "g", "a" >> } :
    /\ Len(v1) = Len(v2) + 1 + Len(q)
    /\ SubSeq(v1, 1, Len(v2)) = v2
    /\ v1[Len(v2) + 1] \in {".", "_", "-"}
    /\ Lower(SubSeq(v1, Len(v2) + 2, Len(v1))) = q

\* C13: a version followed by '.', '_' or '-' and RELEASE, FINAL or GA in any
\* letter case compares equal to the version without it.
C13_QualifierStripped ==
  (mode = "compare" /\ pc = "done") =>
    \A p \in ComparePairs :
      C13_Qualified(call_args[p[1]], call_args[p[2]]) => call_ret[p] = 0

\* C20 as claimed: compare_versions is transitive on the three strings of a
\* call, in whatever order they are taken.
C20_Transitive ==
  (mode = "compare" /\ pc = "done") =>
    \A x, y, z \in {1, 2, 3} :
      (call_ret[<< x, y >>] <= 0 /\ call_ret[<< y, z >>] <= 0) => call_ret[<< x, z >>] <= 0

\* No position holds an integer piece in one of the two versions and a
\* non-integer piece in the other.
C20_SameKinds(v1, v2) ==
  LET n1 == normalize(v1)
      n2 == normalize(v2)
  IN \A k \in 1..Len(n1) : k <= Len(n2) => (n1[k].int <=> n2[k].int)

\* C20 amended: compare_versions is transitive on three versions of which no
\* two hold an integer piece and a non-integer piece at the same position.
C20_TransitiveSameKinds ==
  (mode = "compare" /\ pc = "done") =>
    \A x, y, z \in {1, 2, 3} :
      ( /\ C20_SameKinds(call_args[x], call_args[y])
        /\ C20_SameKinds(call_args[y], call_args[z])
        /\ C20_SameKinds(call_args[x], call_args[z])
        /\ call_ret[<< x, y >>] <= 0 /\ call_ret[<< y, z >>] <= 0 )
      => call_ret[<< x, z >>] <= 0

\* C20 witness: 1.2.0 < 1.10.0 < 2.0.0 were compared, all pieces integers,
\* and 1.2.0 < 2.0.0 came out.
C20_Witness ==
  /\ mode = "compare" /\ pc = "done"
  /\ call_args = << << "1", ".", "2", ".", "0" >>, << "1", ".", "1", "0", ".", "0" >>,
                    << "2", ".", "0", ".", "0" >> >>
  /\ call_ret[<< 1, 2 >>] = -1 /\ call_ret[<< 2, 3 >>] = -1 /\ call_ret[<< 1, 3 >>] = -1

\* C14: without dependencies.json the run halts at once: no index entry is put
\* in a result list, no network call is made and the end of the run, where
\* the index is regenerated, is never reached.
C14_MissingConfigHalts ==
  (mode = "default" /\ ~config_exists) =>
    /\ results = EmptyResults
    /\ \A n \in 1..Len(trace) : trace[n].op \notin NetOps
    /\ pc # "done"

\* C15: every download made for a desired-state entry asks for its pinned
\* version, no version query having been made, when one is declared; and
\* otherwise for the version an earlier query of that entry's upstream source
\* answered, whatever the source.
C15_PinnedOrLatest ==
  \A n \in 1..Len(trace) :
    (trace[n].loop = "add" /\ trace[n].op \in {"download", "multi", "hub"}) =>
      LET item == ADDITIONAL_DOWNLOADS[trace[n].key]
          asked == { m \in 1..(n - 1) :
                       /\ trace[m].loop = "add" /\ trace[m].key = trace[n].key
                       /\ trace[m].op \in {"query", "search"} }
      IN IF Truthy(item.version)
         THEN trace[n].ver = item.version /\ asked = {}
         ELSE \E m \in asked : trace[m].res = "ok" /\ trace[m].ver = trace[n].ver

\* The primary query of an entry found nothing and the secondary lookup,
\* made after it, found nothing either.
C16_BothFailed(loop, key) ==
  \E m, n \in 1..Len(trace) :
    /\ m < n
    /\ trace[m].loop = loop /\ trace[m].key = key
    /\ trace[m].op = "query" /\ trace[m].res = "none"
    /\ trace[n].loop = loop /\ trace[n].key = key
    /\ trace[n].op = "search" /\ trace[n].res = "none"

\* C16: an index entry is recorded as unavailable, and a desired-state entry
\* as not found, only after the primary query and then the secondary lookup
\* have both failed for it.
C16_SecondaryBeforeNotFound ==
  /\ \A n \in 1..Len(results.unavailable) :
       C16_BothFailed("main", results.unavailable[n].identity)
  /\ \A n \in 1..Len(additional_results.errors) :
       additional_results.errors[n].reason = "Not found on Maven Central or mvnrepository"
         => C16_BothFailed("add", additional_results.errors[n].item)

\* The desired-state entries that declare a custom repository URL.
C17_Custom == { k \in 1..Len(ADDITIONAL_DOWNLOADS) :
                  ADDITIONAL_DOWNLOADS[k].repoUrl \notin {"", "<absent>"} }

\* The entry at k went through its whole iteration and was neither found on
\* disk nor left without a version.
C17_Fetched(k) ==
  /\ k < j
  /\ Truthy(ADDITIONAL_DOWNLOADS[k].groupId) /\ Truthy(ADDITIONAL_DOWNLOADS[k].artifactId)
  /\ CountItem(additional_results.already_exists, k) = 0
  /\ \A n \in 1..Len(additional_results.errors) :
       additional_results.errors[n].item = k =>
         additional_results.errors[n].reason # "Not found on Maven Central or mvnrepository"

\* C17 as claimed: for every entry with a custom repository URL that was
\* fetched, exactly one download attempt was made, against that URL.
C17_OneAttemptAtCustomUrl ==
  \A k \in C17_Custom :
    C17_Fetched(k) =>
      LET D == OpEventsOf("add", k, {"download", "multi", "hub"})
      IN Len(D) = 1 /\ D[1].arg = ADDITIONAL_DOWNLOADS[k].repoUrl

\* C17 amended: for an entry with a custom repository URL whose source is not
\* BND Hub, at most one download attempt is made, against that URL and never
\* against the default registry or the fallback list; exactly one once the
\* entry was fetched, and a failed one puts the entry in errors.  An entry
\* whose source is BND Hub is fetched from the hub whatever URL it declares.
C17_OneAttemptUnlessHub ==
  \A k \in C17_Custom :
    LET item == ADDITIONAL_DOWNLOADS[k]
        D == OpEventsOf("add", k, {"download", "multi", "hub"})
    IN IF item.source = "BND Hub"
       THEN \A n \in 1..Len(D) : D[n].op = "hub" /\ D[n].arg = "BND Hub"
       ELSE /\ Len(D) <= 1
            /\ \A n \in 1..Len(D) : D[n].op = "download" /\ D[n].arg = item.repoUrl
            /\ C17_Fetched(k) =>
                 /\ Len(D) = 1
                 /\ D[1].res = "False" =>
                      /\ CountItem(additional_results.errors, k) = 1
                      /\ CountItem(additional_results.downloaded, k) = 0
                 /\ D[1].res = "True" =>
                      \E n \in 1..Len(additional_results.downloaded) :
                        /\ additional_results.downloaded[n].item = k
                        /\ additional_results.downloaded[n].source = item.repoUrl

\* C17 witness: the run ended with an entry whose one download, from its
\* custom URL, failed and which is in errors.
C17_Witness ==
  /\ pc = "done"
  /\ \E k \in C17_Custom :
       LET D == OpEventsOf("add", k, {"download", "multi", "hub"})
       IN /\ ADDITIONAL_DOWNLOADS[k].source # "BND Hub"
          /\ Len(D) = 1 /\ D[1].res = "False" /\ D[1].arg = ADDITIONAL_DOWNLOADS[k].repoUrl
          /\ CountItem(additional_results.errors, k) = 1

\* C18: between the network calls of two different iterations of one loop
\* there is a time.sleep.
C18_DelayBetweenIterations ==
  \A m, n \in 1..Len(trace) :
    ( /\ m < n
      /\ trace[m].op \in NetOps /\ trace[n].op \in NetOps
      /\ trace[m].loop = trace[n].loop /\ trace[m].key # trace[n].key )
    => \E p \in (m + 1)..(n - 1) : trace[p].op = "sleep"

\* The versions of the files c-<version>.jar of the listing asked about.
C19_Listed ==
  { SubSeq(call_args.reply.data[k].name, 3, Len(call_args.reply.data[k].name) - 4) :
      k \in { n \in 1..Len(call_args.reply.data) :
                /\ call_args.reply.data[n].type = "file"
                /\ SubSeq(call_args.reply.data[n].name, 1, 2) = << "c", "-" >> } }

\* C19: on a listing with at least one file c-<version>.jar the bundle-hub
\* lookup raises nothing and returns a listed version that no listed version
\* exceeds piece by piece.
C19_HubMaximum ==
  (mode = "hub" /\ pc = "done" /\ call_args.reply.net = "response" /\ C19_Listed # {}) =>
    /\ call_ret.st = "ok"
    /\ call_ret.version \in C19_Listed
    /\ \A w \in C19_Listed : KeyLess(HubKey(call_ret.version), HubKey(w), 1) # "True"

====
